---- MODULE Spec2Model ----
(***************************************************************************)
(* UNICORN random beacon.                                                  *)
(*   Layer A: the beacon state machine `Unicorn` of src/src/lib.rs.        *)
(*   Layer B: the peer actors of src/src/peer.rs and the relay actor of    *)
(*            src/src/network.rs.                                          *)
(* Byte strings are sequences of naturals.  Option<T> is a sequence of     *)
(* length at most one: <<>> is None and <<x>> is Some(x).                  *)
(***************************************************************************)
EXTENDS Integers, Sequences, FiniteSets, TLC

\* ------------------------------------------------------------------ bounds
\* Beacon ids are 0..MaxId.
MaxId == 2
\* Thresholds given to Unicorn::new are 1..MaxThreshold.
MaxThreshold == 2

\* The run has NumPeers peers, ids 0..NumPeers-1 (NUM_PEERS of main.rs).
NumPeers == 3
\* The peers create at most MaxCommitments commitments in all: a peer starts,
\* or restarts its commit phase, only while the run has one left.
MaxCommitments == 3

\* The peers hold at most MaxHeld messages in all, stored or waiting in a
\* mailbox, when the transport delivers at will.
MaxHeld == 2

\* ids of commitments and VDF results handed to the beacon
Ids == 0 .. MaxId
\* values carried by the commitments handed to the beacon
CommitValues == { <<1>>, <<2>>, <<1, 2>> }
\* values carried by the VDF results handed to the beacon
VdfValues == { <<5>>, <<6>> }

\* ---------------------------------------------------------------- helpers
None == << >>
Some(x) == << x >>

\* The digest D (Sha256 in the tests and in peer.rs): a collision-free
\* function of its input; the tag is no byte, so a digest differs from
\* every input the model hashes at the same position.
hash(bytes) == <<256>> \o bytes

Range(s) == { s[i] : i \in DOMAIN s }

\* Every order in which a HashMap may yield the elements of S.
Iterations(S) ==
  { s \in [1 .. Cardinality(S) -> S] : \A x \in S : \E i \in DOMAIN s : s[i] = x }

RECURSIVE Insert(_, _, _)
Insert(x, s, k) ==
  IF s = << >> THEN << x >>
  ELSE IF k[x] < k[Head(s)] THEN << x >> \o s
  ELSE << Head(s) >> \o Insert(x, Tail(s), k)

\* slice::sort_unstable_by_key: ascending in the key k (a function on the
\* elements); the order of equal keys is whatever the input order makes it.
RECURSIVE sort_unstable_by_key(_, _)
sort_unstable_by_key(s, k) ==
  IF s = << >> THEN << >>
  ELSE Insert(Head(s), sort_unstable_by_key(Tail(s), k), k)

\* Iterator::flatten over a sequence of byte strings.
RECURSIVE flatten(_)
flatten(s) == IF s = << >> THEN << >> ELSE Head(s) \o flatten(Tail(s))

\* ------------------------------------------------------------------- state
VARIABLES
  \* Layer A, struct Unicorn
  state,             \* UnicornState
  seed_commitments,  \* HashMap<I, C>: function id -> [id, value]
  vdf_results,       \* HashMap<I, R>: function id -> [id, seed, value]
  seed,              \* Option<Vec<u8>>
  randomness,        \* Option<Vec<u8>>
  threshold,         \* usize
  lastOp,            \* the operation called last
  lastResult         \* what it returned: "Ok" or the UnicornError

VARIABLES
  \* Layer B, struct Peer, one entry per peer id
  peer_state,        \* PeerState
  commitments,       \* HashMap<PeerId, Commitment>: id -> [id_from, value]
  peer_seed,         \* Option<Vec<u8>>
  peer_vdf_results,  \* HashMap<PeerId, VdfResult>: id -> [id_from, seed, result]
  \* the actor runtime of a peer
  life,              \* "new", "running" (started and registered), "stopped"
  mailbox,           \* the actor's mailbox, first in first out
  commit_timers,     \* outstanding commit-delay callbacks (peer.rs:74)
  round_timers,      \* outstanding commit-round timers (peer.rs:87)
  vdf_timers,        \* outstanding VDF-gathering timers (peer.rs:175)
  commits_made,      \* commitments the peer has created so far
  \* what the peer printed
  seed_from,         \* the commitments it created its seed from (peer.rs:119)
  outcome,           \* "none", "SUCCESS" or "FAILURE" (peer.rs:204, 206)
  reported,          \* the random number printed with SUCCESS
  \* struct Network
  net_peers          \* Network::peers

bvars == << state, seed_commitments, vdf_results, seed, randomness, threshold,
            lastOp, lastResult >>

pvars == << peer_state, commitments, peer_seed, peer_vdf_results, life, mailbox,
            commit_timers, round_timers, vdf_timers, commits_made,
            seed_from, outcome, reported, net_peers >>

EmptyMap == [x \in {} |-> x]

\* HashMap::insert: the entry for key k becomes v, whether or not k was present.
MapInsert(m, k, v) == [x \in DOMAIN m \cup {k} |-> IF x = k THEN v ELSE m[x]]

\* ----------------------------------------------------------------- Layer A
\* Unicorn::new
BeaconInit ==
  /\ state = "CollectingSeedCommitments"
  /\ seed_commitments = EmptyMap
  /\ vdf_results = EmptyMap
  /\ seed = None
  /\ randomness = None
  /\ threshold \in 1 .. MaxThreshold
  /\ lastOp = "new"
  /\ lastResult = "Ok"

\* calculate_seed without its sort: the values in iteration order.
calculate_seed_unsorted(it) ==
  hash(flatten([i \in DOMAIN it |-> it[i].value]))

\* Unicorn::calculate_seed, for one iteration order `it` of
\* seed_commitments.values().
calculate_seed(it) ==
  LET sorted == sort_unstable_by_key(it, [c \in Range(it) |-> c.id])
  IN  hash(flatten([i \in DOMAIN sorted |-> sorted[i].value]))

\* finalize_seed with `>` for `>=`.
FinalizeSeedStrict ==
  /\ lastOp' = "finalize_seed"
  /\ IF Cardinality(DOMAIN seed_commitments) > threshold
     THEN /\ \E it \in Iterations(Range(seed_commitments)) :
               seed' = Some(calculate_seed(it))
          /\ state' = "SeedReady"
          /\ lastResult' = "Ok"
     ELSE /\ lastResult' = "NotEnoughSeedCommitments"
          /\ UNCHANGED << state, seed >>
  /\ UNCHANGED << seed_commitments, vdf_results, randomness, threshold >>
  /\ UNCHANGED pvars

\* Unicorn::finalize_seed
FinalizeSeed ==
  /\ lastOp' = "finalize_seed"
  /\ IF Cardinality(DOMAIN seed_commitments) >= threshold
     THEN /\ \E it \in Iterations(Range(seed_commitments)) :
               seed' = Some(calculate_seed(it))
          /\ state' = "SeedReady"
          /\ lastResult' = "Ok"
     ELSE /\ lastResult' = "NotEnoughSeedCommitments"
          /\ UNCHANGED << state, seed >>
  /\ UNCHANGED << seed_commitments, vdf_results, randomness, threshold >>
  /\ UNCHANGED pvars

\* add_seed_commitment without its phase test.
AddSeedCommitmentAnyPhase ==
  \E id \in Ids, value \in CommitValues :
    /\ lastOp' = "add_seed_commitment"
    /\ seed_commitments' =
         MapInsert(seed_commitments, id, [id |-> id, value |-> value])
    /\ lastResult' = "Ok"
    /\ UNCHANGED << state, vdf_results, seed, randomness, threshold >>
    /\ UNCHANGED pvars

\* Unicorn::add_seed_commitment
AddSeedCommitment ==
  \E id \in Ids, value \in CommitValues :
    /\ lastOp' = "add_seed_commitment"
    /\ IF state # "CollectingSeedCommitments"
       THEN /\ lastResult' = "NotCollectingSeedCommitments"
            /\ UNCHANGED seed_commitments
       ELSE /\ seed_commitments' =
                 MapInsert(seed_commitments, id, [id |-> id, value |-> value])
            /\ lastResult' = "Ok"
    /\ UNCHANGED << state, vdf_results, seed, randomness, threshold >>
    /\ UNCHANGED pvars

\* add_vdf_result that also accepts results once the randomness is ready.
AddVdfResultLate ==
  \E id \in Ids, value \in VdfValues :
    /\ lastOp' = "add_vdf_result"
    /\ IF state = "CollectingSeedCommitments"
       THEN /\ lastResult' = "NotCollectingVdfResults"
            /\ UNCHANGED vdf_results
       ELSE /\ vdf_results' =
                 MapInsert(vdf_results, id,
                           [id |-> id, seed |-> seed[1], value |-> value])
            /\ lastResult' = "Ok"
    /\ UNCHANGED << state, seed_commitments, seed, randomness, threshold >>
    /\ UNCHANGED pvars

\* Unicorn::add_vdf_result; the result carries the seed the caller read from
\* the beacon (tests::test_vdf_results), which the beacon never inspects.
AddVdfResult ==
  \E id \in Ids, value \in VdfValues :
    /\ lastOp' = "add_vdf_result"
    /\ IF state # "SeedReady"
       THEN /\ lastResult' = "NotCollectingVdfResults"
            /\ UNCHANGED vdf_results
       ELSE /\ vdf_results' =
                 MapInsert(vdf_results, id,
                           [id |-> id, seed |-> seed[1], value |-> value])
            /\ lastResult' = "Ok"
    /\ UNCHANGED << state, seed_commitments, seed, randomness, threshold >>
    /\ UNCHANGED pvars

\* The HashMap freq_map built by most_frequent_vdf_result.
freq_map ==
  [v \in { vdf_results[i].value : i \in DOMAIN vdf_results } |->
     Cardinality({ i \in DOMAIN vdf_results : vdf_results[i].value = v })]

\* Unicorn::most_frequent_vdf_result, for one iteration order `it` of the
\* keys of freq_map: Option<(Vec<u8>, usize)>.
most_frequent_vdf_result(it) ==
  LET freq_vec == sort_unstable_by_key(it, freq_map)
  IN  IF freq_vec = << >> THEN None
      ELSE Some([res |-> freq_vec[1], freq |-> freq_map[freq_vec[1]]])

\* finalize_vdf_result that drops the stored results when it fails.
FinalizeVdfResultDropping ==
  /\ lastOp' = "finalize_vdf_result"
  /\ \E it \in Iterations(DOMAIN freq_map) :
       LET mf == most_frequent_vdf_result(it) IN
       IF mf # None /\ ~(mf[1].freq < threshold)
       THEN /\ randomness' = Some(hash(mf[1].res))
            /\ state' = "RandomnessReady"
            /\ lastResult' = "Ok"
            /\ UNCHANGED vdf_results
       ELSE /\ lastResult' = "NotEnoughVdfResults"
            /\ vdf_results' = EmptyMap
            /\ UNCHANGED << state, randomness >>
  /\ UNCHANGED << seed_commitments, seed, threshold >>
  /\ UNCHANGED pvars

\* Unicorn::finalize_vdf_result
FinalizeVdfResult ==
  /\ lastOp' = "finalize_vdf_result"
  /\ \E it \in Iterations(DOMAIN freq_map) :
       LET mf == most_frequent_vdf_result(it) IN
       IF mf # None /\ ~(mf[1].freq < threshold)
       THEN /\ randomness' = Some(hash(mf[1].res))
            /\ state' = "RandomnessReady"
            /\ lastResult' = "Ok"
       ELSE /\ lastResult' = "NotEnoughVdfResults"
            /\ UNCHANGED << state, randomness >>
  /\ UNCHANGED << seed_commitments, vdf_results, seed, threshold >>
  /\ UNCHANGED pvars

\* reset that forgets to clear the seed.
ResetKeepSeed ==
  /\ lastOp' = "reset"
  /\ lastResult' = "Ok"
  /\ state' = "CollectingSeedCommitments"
  /\ seed_commitments' = EmptyMap
  /\ vdf_results' = EmptyMap
  /\ randomness' = None
  /\ UNCHANGED << seed, threshold >>
  /\ UNCHANGED pvars

\* Unicorn::reset
Reset ==
  /\ lastOp' = "reset"
  /\ lastResult' = "Ok"
  /\ state' = "CollectingSeedCommitments"
  /\ seed_commitments' = EmptyMap
  /\ vdf_results' = EmptyMap
  /\ seed' = None
  /\ randomness' = None
  /\ UNCHANGED threshold
  /\ UNCHANGED pvars

\* ----------------------------------------------------------------- Layer B
PeerIds == 0 .. NumPeers - 1

\* Peer::new for every id of main(), Network::default
PeerInit ==
  /\ peer_state = [i \in PeerIds |-> "Idle"]
  /\ commitments = [i \in PeerIds |-> EmptyMap]
  /\ peer_seed = [i \in PeerIds |-> None]
  /\ peer_vdf_results = [i \in PeerIds |-> EmptyMap]
  /\ life = [i \in PeerIds |-> "new"]
  /\ mailbox = [i \in PeerIds |-> << >>]
  /\ commit_timers = [i \in PeerIds |-> 0]
  /\ round_timers = [i \in PeerIds |-> 0]
  /\ vdf_timers = [i \in PeerIds |-> 0]
  /\ commits_made = [i \in PeerIds |-> 0]
  /\ seed_from = [i \in PeerIds |-> None]
  /\ outcome = [i \in PeerIds |-> "none"]
  /\ reported = [i \in PeerIds |-> None]
  /\ net_peers = << >>

\* `n as f32 >= num_peers as f32 * (2f32 / 3f32)` (peer.rs:108, 197).  The
\* f32 product rounds to 2*num_peers/3 exactly when that is an integer and
\* lies strictly between two integers otherwise, so the test is n >= 2N/3.
TwoThirdsStrict(n) == 3 * n > 2 * NumPeers   \* the test with `>` for `>=`
TwoThirds(n) == 3 * n >= 2 * NumPeers

RECURSIVE Sum(_, _)
Sum(f, n) == IF n < 0 THEN 0 ELSE f[n] + Sum(f, n - 1)

\* The commitments created so far or due from an armed commit-delay callback.
CommitmentsIssued == Sum(commits_made, NumPeers - 1) + Sum(commit_timers, NumPeers - 1)

\* The 32 random bytes of the k-th commitment peer i creates (peer.rs:75-76):
\* fresh randomness, different for every (i, k).
RandomValue(i, k) == << i, k >>

\* vdf::PietrzakVDFParams(VDF_PARAMS).new().solve(seed, VDF_DIFFICULTY): a
\* deterministic function of the seed.
solve(s) == <<257>> \o s
\* ... .verify(seed, VDF_DIFFICULTY, result).is_ok()
verify(s, result) == result = solve(s)

\* Network::broadcast_commitment / broadcast_vdf_result: do_send(msg) to
\* every address of `peers`.  The shuffle only reorders the do_send calls,
\* each of which appends to another actor's mailbox, so every outcome of it
\* leaves the same mailboxes; a stopped actor's mailbox is closed.
broadcast(peers, msg) ==
  [p \in PeerIds |->
     IF p \in Range(peers) /\ life[p] # "stopped"
     THEN Append(mailbox[p], msg) ELSE mailbox[p]]

\* Handler<Commitment> and Handler<VdfResult> for Network.  The relay handles
\* its mailbox first in first out and the peers read their own mailboxes when
\* they get to it, so the relay's step is taken together with the do_send
\* that feeds it.
NetworkHandle(msg) == mailbox' = broadcast(net_peers, msg)

\* started that calls create_commitment_after_delay's timer arming twice.
StartedTwice ==
  \E i \in PeerIds :
    /\ life[i] = "new"
    /\ CommitmentsIssued < MaxCommitments
    /\ life' = [life EXCEPT ![i] = "running"]
    /\ net_peers' = Append(net_peers, i)
    /\ peer_state' = [peer_state EXCEPT ![i] = "Connected"]
    /\ commit_timers' = [commit_timers EXCEPT ![i] = @ + 1]
    /\ round_timers' = [round_timers EXCEPT ![i] = @ + 2]
    /\ UNCHANGED << commitments, peer_seed, peer_vdf_results, mailbox, vdf_timers,
                    commits_made, seed_from, outcome, reported >>
    /\ UNCHANGED bvars

\* Actor::started for Peer with Handler<Connect> for Network: the peer sends
\* Connect and its context waits (peer.rs:217-233) until the network has
\* pushed its address; the continuation sets state = Connected and
\* Peer::create_commitment_after_delay arms the commit-delay callback and
\* the commit-round timer.
Started ==
  \E i \in PeerIds :
    /\ life[i] = "new"
    /\ CommitmentsIssued < MaxCommitments
    /\ life' = [life EXCEPT ![i] = "running"]
    /\ net_peers' = Append(net_peers, i)
    /\ peer_state' = [peer_state EXCEPT ![i] = "Connected"]
    /\ commit_timers' = [commit_timers EXCEPT ![i] = @ + 1]
    /\ round_timers' = [round_timers EXCEPT ![i] = @ + 1]
    /\ UNCHANGED << commitments, peer_seed, peer_vdf_results, mailbox, vdf_timers,
                    commits_made, seed_from, outcome, reported >>
    /\ UNCHANGED bvars

\* The commit-delay callback of create_commitment_after_delay (peer.rs:74-85).
CommitDelayFired ==
  \E i \in PeerIds :
    /\ life[i] = "running"
    /\ commit_timers[i] > 0
    /\ commit_timers' = [commit_timers EXCEPT ![i] = @ - 1]
    /\ commits_made' = [commits_made EXCEPT ![i] = @ + 1]
    /\ NetworkHandle([type |-> "Commitment", id_from |-> i,
                      value |-> RandomValue(i, commits_made[i])])
    /\ peer_state' = [peer_state EXCEPT ![i] = "Commit"]
    /\ UNCHANGED << commitments, peer_seed, peer_vdf_results, life,
                    round_timers, vdf_timers, seed_from, outcome, reported,
                    net_peers >>
    /\ UNCHANGED bvars

\* The seed of commitments_round_finished without its sort.
peer_calculate_seed_unsorted(it) ==
  hash(flatten([k \in DOMAIN it |-> it[k].value]))

\* The seed commitments_round_finished derives (peer.rs:111-130), for one
\* iteration order `it` of commitments.values().
peer_calculate_seed(it) ==
  LET sorted == sort_unstable_by_key(it, [c \in Range(it) |-> c.id_from])
  IN  hash(flatten([k \in DOMAIN sorted |-> sorted[k].value]))

\* commitments_round_finished on a timer that may fire while the
\* commit-delay callback armed with it is still due.
CommitmentsRoundFinishedEarly ==
  \E i \in PeerIds :
    /\ life[i] = "running"
    /\ round_timers[i] > 0
    /\ IF peer_state[i] # "Commit"
       THEN \* ctx.stop(): the actor ends, its timers and mailbox with it
            /\ life' = [life EXCEPT ![i] = "stopped"]
            /\ mailbox' = [mailbox EXCEPT ![i] = << >>]
            /\ commit_timers' = [commit_timers EXCEPT ![i] = 0]
            /\ round_timers' = [round_timers EXCEPT ![i] = 0]
            /\ vdf_timers' = [vdf_timers EXCEPT ![i] = 0]
            /\ UNCHANGED << peer_state, peer_seed, seed_from >>
       ELSE IF TwoThirds(Cardinality(DOMAIN commitments[i]))
       THEN /\ \E it \in Iterations(Range(commitments[i])) :
                 LET s == peer_calculate_seed(it) IN
                 /\ peer_seed' = [peer_seed EXCEPT ![i] = Some(s)]
                 /\ NetworkHandle([type |-> "VdfResult", id_from |-> i,
                                   seed |-> s, result |-> solve(s)])
            /\ seed_from' = [seed_from EXCEPT ![i] = Some(commitments[i])]
            /\ peer_state' = [peer_state EXCEPT ![i] = "DoingVdf"]
            /\ round_timers' = [round_timers EXCEPT ![i] = @ - 1]
            /\ vdf_timers' = [vdf_timers EXCEPT ![i] = @ + 1]
            /\ UNCHANGED << life, commit_timers >>
       ELSE \* not enough commitments: create_commitment_after_delay again
            /\ CommitmentsIssued < MaxCommitments
            /\ commit_timers' = [commit_timers EXCEPT ![i] = @ + 1]
            /\ UNCHANGED << peer_state, peer_seed, life, mailbox, round_timers,
                            vdf_timers, seed_from >>
    /\ UNCHANGED << commitments, peer_vdf_results, commits_made, outcome, reported,
                    net_peers >>
    /\ UNCHANGED bvars

\* Peer::commitments_round_finished, called by the commit-round timer, with
\* Peer::calculate_vdf up to the arming of the VDF-gathering timer.  The
\* timer is armed together with a commit-delay callback whose delay,
\* COMMITMENTS_DELAY_MIN + 0..4 s, is below COMMITMENTS_ROUND_TIMEOUT
\* (peer.rs:73-89, main.rs:16-19): in one actor the callback runs first.
\* Every peer has an arbiter, hence a thread, of its own (main.rs:38), and
\* nothing but its own VDF evaluation keeps that thread busy for long.
CommitmentsRoundFinished ==
  \E i \in PeerIds :
    /\ life[i] = "running"
    /\ round_timers[i] > 0
    /\ commit_timers[i] = 0
    /\ IF peer_state[i] # "Commit"
       THEN \* ctx.stop(): the actor ends, its timers and mailbox with it
            /\ life' = [life EXCEPT ![i] = "stopped"]
            /\ mailbox' = [mailbox EXCEPT ![i] = << >>]
            /\ commit_timers' = [commit_timers EXCEPT ![i] = 0]
            /\ round_timers' = [round_timers EXCEPT ![i] = 0]
            /\ vdf_timers' = [vdf_timers EXCEPT ![i] = 0]
            /\ UNCHANGED << peer_state, peer_seed, seed_from >>
       ELSE IF TwoThirds(Cardinality(DOMAIN commitments[i]))
       THEN /\ \E it \in Iterations(Range(commitments[i])) :
                 LET s == peer_calculate_seed(it) IN
                 /\ peer_seed' = [peer_seed EXCEPT ![i] = Some(s)]
                 /\ NetworkHandle([type |-> "VdfResult", id_from |-> i,
                                   seed |-> s, result |-> solve(s)])
            /\ seed_from' = [seed_from EXCEPT ![i] = Some(commitments[i])]
            /\ peer_state' = [peer_state EXCEPT ![i] = "DoingVdf"]
            /\ round_timers' = [round_timers EXCEPT ![i] = @ - 1]
            /\ vdf_timers' = [vdf_timers EXCEPT ![i] = @ + 1]
            /\ UNCHANGED << life, commit_timers >>
       ELSE \* not enough commitments: create_commitment_after_delay again
            /\ CommitmentsIssued < MaxCommitments
            /\ commit_timers' = [commit_timers EXCEPT ![i] = @ + 1]
            /\ UNCHANGED << peer_state, peer_seed, life, mailbox, round_timers,
                            vdf_timers, seed_from >>
    /\ UNCHANGED << commitments, peer_vdf_results, commits_made, outcome, reported,
                    net_peers >>
    /\ UNCHANGED bvars

\* num_valid that counts every stored result, whatever its seed and value.
NumValidAll(i) ==
  IF peer_seed[i] = None THEN 0
  ELSE Cardinality(DOMAIN peer_vdf_results[i])

\* The number num_valid counted by the VDF-gathering callback of peer i.
NumValid(i) ==
  IF peer_seed[i] = None THEN 0
  ELSE Cardinality({ k \in DOMAIN peer_vdf_results[i] :
         /\ peer_vdf_results[i][k].seed = peer_seed[i][1]
         /\ verify(peer_seed[i][1], peer_vdf_results[i][k].result) })

\* The callback of the VDF-gathering timer (peer.rs:175-208).
VdfGatheringFinished ==
  \E i \in PeerIds :
    /\ life[i] = "running"
    /\ vdf_timers[i] > 0
    /\ vdf_timers' = [vdf_timers EXCEPT ![i] = @ - 1]
    /\ peer_state' = [peer_state EXCEPT ![i] = "VerifyingVdf"]
    /\ IF TwoThirds(NumValid(i))
       THEN \* vdf_results.values().nth(0): the first result the map yields
            \E it \in Iterations(Range(peer_vdf_results[i])) :
              /\ reported' = [reported EXCEPT ![i] = Some(hash(it[1].result))]
              /\ outcome' = [outcome EXCEPT ![i] = "SUCCESS"]
       ELSE /\ outcome' = [outcome EXCEPT ![i] = "FAILURE"]
            /\ UNCHANGED reported
    /\ UNCHANGED << commitments, peer_seed, peer_vdf_results, life, mailbox,
                    commit_timers, round_timers, commits_made, seed_from,
                    net_peers >>
    /\ UNCHANGED bvars

\* The messages a transport may hand to a peer: commitments and VDF results
\* of every peer id, two values for each id.
Messages ==
  { [type |-> "Commitment", id_from |-> j, value |-> RandomValue(j, k)] :
      j \in PeerIds, k \in 0 .. 1 }
  \cup
  { [type |-> "VdfResult", id_from |-> j, seed |-> hash(RandomValue(0, k)),
     result |-> solve(hash(RandomValue(0, k)))] : j \in PeerIds, k \in 0 .. 1 }

\* The messages the peers hold: waiting in a mailbox or stored in a map.
Held ==
  Sum([i \in PeerIds |-> Len(mailbox[i]) + Cardinality(DOMAIN commitments[i])
                           + Cardinality(DOMAIN peer_vdf_results[i])],
      NumPeers - 1)

\* peer.do_send(msg) by a transport that may repeat and reorder what it
\* delivers: any message, to any running peer, at any time.
Deliver ==
  \E i \in PeerIds, msg \in Messages :
    /\ life[i] = "running"
    /\ Held < MaxHeld
    /\ mailbox' = [mailbox EXCEPT ![i] = Append(@, msg)]
    /\ UNCHANGED << peer_state, commitments, peer_seed, peer_vdf_results, life,
                    commit_timers, round_timers, vdf_timers, commits_made,
                    seed_from, outcome, reported, net_peers >>
    /\ UNCHANGED bvars

\* The handlers without their contains_key tests: the message is stored
\* under its id whether or not the id is present.
HandleMessageOverwriting ==
  \E i \in PeerIds :
    /\ life[i] = "running"
    /\ mailbox[i] # << >>
    /\ mailbox' = [mailbox EXCEPT ![i] = Tail(@)]
    /\ LET msg == Head(mailbox[i]) IN
       IF msg.type = "Commitment"
       THEN /\ commitments' =
                 [commitments EXCEPT ![i] = MapInsert(@, msg.id_from,
                         [id_from |-> msg.id_from, value |-> msg.value])]
            /\ UNCHANGED peer_vdf_results
       ELSE /\ peer_vdf_results' =
                 [peer_vdf_results EXCEPT ![i] = MapInsert(@, msg.id_from,
                         [id_from |-> msg.id_from, seed |-> msg.seed,
                          result |-> msg.result])]
            /\ UNCHANGED commitments
    /\ UNCHANGED << peer_state, peer_seed, life, commit_timers, round_timers,
                    vdf_timers, commits_made, seed_from, outcome, reported,
                    net_peers >>
    /\ UNCHANGED bvars

\* Handler<Commitment> and Handler<VdfResult> for Peer: the peer handles the
\* first message of its mailbox; an id already stored is left alone.
HandleMessage ==
  \E i \in PeerIds :
    /\ life[i] = "running"
    /\ mailbox[i] # << >>
    /\ mailbox' = [mailbox EXCEPT ![i] = Tail(@)]
    /\ LET msg == Head(mailbox[i]) IN
       IF msg.type = "Commitment"
       THEN /\ commitments' =
                 IF msg.id_from \in DOMAIN commitments[i] THEN commitments
                 ELSE [commitments EXCEPT ![i] = MapInsert(@, msg.id_from,
                         [id_from |-> msg.id_from, value |-> msg.value])]
            /\ UNCHANGED peer_vdf_results
       ELSE /\ peer_vdf_results' =
                 IF msg.id_from \in DOMAIN peer_vdf_results[i] THEN peer_vdf_results
                 ELSE [peer_vdf_results EXCEPT ![i] = MapInsert(@, msg.id_from,
                         [id_from |-> msg.id_from, seed |-> msg.seed,
                          result |-> msg.result])]
            /\ UNCHANGED commitments
    /\ UNCHANGED << peer_state, peer_seed, life, commit_timers, round_timers,
                    vdf_timers, commits_made, seed_from, outcome, reported,
                    net_peers >>
    /\ UNCHANGED bvars

vars == << bvars, pvars >>

\* A beacon driven by arbitrary calls; no peer is started.
Init == BeaconInit /\ PeerInit

Next ==
  \/ AddSeedCommitment
  \/ FinalizeSeed
  \/ AddVdfResult
  \/ FinalizeVdfResult
  \/ Reset

Spec == Init /\ [][Next]_vars

\* A run of main(): NumPeers peers and the network relay; the beacon object
\* of Layer A is not used by the peers (peer.rs keeps its own maps).
PeerSpecInit == BeaconInit /\ threshold = 1 /\ PeerInit

PeerNext ==
  \/ Started
  \/ CommitDelayFired
  \/ CommitmentsRoundFinished
  \/ VdfGatheringFinished
  \/ HandleMessage

PeerSpec == PeerSpecInit /\ [][PeerNext]_vars

\* The peers' message handlers under a transport that delivers anything in
\* any order and any number of times; no timer fires.
HandlerNext ==
  \/ Started
  \/ Deliver
  \/ HandleMessage

HandlerSpec == PeerSpecInit /\ [][HandlerNext]_vars

\* ------------------------------------------------------- Layer A, claims
\* The values of the commitments of map m with ids i..MaxId, concatenated in
\* ascending id order with nothing between them.
RECURSIVE ConcatAscending(_, _)
ConcatAscending(m, i) ==
  IF i > MaxId THEN << >>
  ELSE (IF i \in DOMAIN m THEN m[i].value ELSE << >>) \o ConcatAscending(m, i + 1)

\* C4: whatever order the commitments were added in (and whatever order the
\* map yields them in), the seed a successful finalize_seed stores is the
\* digest of the commitment values concatenated in ascending id order with
\* no separator.
SeedIsCanonical ==
  seed # None => seed = Some(hash(ConcatAscending(seed_commitments, 0)))

\* C4 witness: finalize_seed has just succeeded on a full map that holds two
\* different values, the larger id holding the shorter one.
SeedIsCanonicalWitness ==
  /\ lastOp = "finalize_seed" /\ lastResult = "Ok"
  /\ DOMAIN seed_commitments = Ids
  /\ seed_commitments[0].value = <<1, 2>>
  /\ seed_commitments[1].value = <<2>>
  /\ seed # None

\* The highest frequency of a single value among the stored VDF results; 0
\* for an empty map.
MaxFreq ==
  IF DOMAIN freq_map = {} THEN 0
  ELSE CHOOSE n \in { freq_map[v] : v \in DOMAIN freq_map } :
         \A v \in DOMAIN freq_map : freq_map[v] <= n
\* The values that occur MaxFreq times.
Modes == { v \in DOMAIN freq_map : freq_map[v] = MaxFreq }

\* C5: when the most frequent value of the stored VDF results is unique and
\* occurs at least threshold times, finalize_vdf_result succeeds and stores
\* randomness = H(that value), also when less frequent values are stored.
ModeIsFinalized ==
  (lastOp = "finalize_vdf_result" /\ Cardinality(Modes) = 1 /\ MaxFreq >= threshold)
    => /\ lastResult = "Ok"
       /\ \E v \in Modes : randomness = Some(hash(v))

\* C6: finalize_vdf_result fails with NotEnoughVdfResults if and only if the
\* highest frequency of a single stored value is below threshold.
VdfThresholdGuard ==
  lastOp = "finalize_vdf_result"
    => (lastResult = "NotEnoughVdfResults" <=> MaxFreq < threshold)

\* C7: finalize_seed fails with NotEnoughSeedCommitments if and only if fewer
\* than threshold commitments are stored; otherwise it succeeds and the
\* beacon is in SeedReady.
SeedThresholdGuard ==
  lastOp = "finalize_seed"
    => /\ lastResult = "NotEnoughSeedCommitments"
            <=> Cardinality(DOMAIN seed_commitments) < threshold
       /\ Cardinality(DOMAIN seed_commitments) >= threshold
            => (lastResult = "Ok" /\ state = "SeedReady")

\* C7 witness: finalize_seed succeeded with exactly threshold commitments.
SeedThresholdGuardWitness ==
  /\ lastOp = "finalize_seed" /\ lastResult = "Ok"
  /\ Cardinality(DOMAIN seed_commitments) = threshold
  /\ state = "SeedReady"

PhaseRank ==
  [p \in {"CollectingSeedCommitments", "SeedReady", "RandomnessReady"} |->
     CASE p = "CollectingSeedCommitments" -> 0
       [] p = "SeedReady" -> 1
       [] p = "RandomnessReady" -> 2]

\* C8: a call that is not reset never moves the phase backwards in the order
\* CollectingSeedCommitments < SeedReady < RandomnessReady.
PhaseMonotonic ==
  [][lastOp' # "reset" => PhaseRank[state'] >= PhaseRank[state]]_vars

\* C9: randomness is present if and only if the phase is RandomnessReady.
RandomnessIffReady ==
  (randomness # None) <=> (state = "RandomnessReady")

\* C10: seed is present if and only if the phase is not
\* CollectingSeedCommitments.
SeedIffNotCollecting ==
  (seed # None) <=> (state # "CollectingSeedCommitments")

\* C10 witness: a beacon that went through both finalize calls holds a seed
\* in RandomnessReady.
SeedIffNotCollectingWitness ==
  /\ lastOp = "finalize_vdf_result" /\ lastResult = "Ok"
  /\ state = "RandomnessReady" /\ seed # None

\* C11: an accepted add_seed_commitment or add_vdf_result whose id is already
\* stored keeps the first stored entry: every entry stored before the call
\* is the same after it.
FirstEntryRetained ==
  [][(lastOp' \in {"add_seed_commitment", "add_vdf_result"})
       => /\ \A id \in DOMAIN seed_commitments :
               /\ id \in DOMAIN seed_commitments'
               /\ seed_commitments'[id] = seed_commitments[id]
          /\ \A id \in DOMAIN vdf_results :
               /\ id \in DOMAIN vdf_results'
               /\ vdf_results'[id] = vdf_results[id]]_vars

\* Byte-lexicographic order on byte strings.
RECURSIVE LexLeq(_, _)
LexLeq(a, b) ==
  IF a = << >> THEN TRUE
  ELSE IF b = << >> THEN FALSE
  ELSE IF Head(a) # Head(b) THEN Head(a) < Head(b)
  ELSE LexLeq(Tail(a), Tail(b))
\* The byte-lexicographically smallest element of a non-empty set S.
LexMin(S) == CHOOSE v \in S : \A w \in S : LexLeq(v, w)

\* C12: when several distinct values share the highest frequency and that
\* frequency is at least threshold, finalize_vdf_result selects the
\* byte-lexicographically smallest of them, whatever order the map yields
\* the results in: randomness = H(that value).
TieBreakSmallest ==
  (lastOp = "finalize_vdf_result" /\ Cardinality(Modes) > 1 /\ MaxFreq >= threshold)
    => /\ lastResult = "Ok"
       /\ randomness = Some(hash(LexMin(Modes)))

\* C13: a finalize_seed or finalize_vdf_result call that returns an error
\* leaves phase, seed, randomness and both collections as they were.
FailedFinalizeChangesNothing ==
  [][(lastOp' \in {"finalize_seed", "finalize_vdf_result"} /\ lastResult' # "Ok")
       => UNCHANGED << state, seed, randomness, seed_commitments, vdf_results >>]_vars

\* C13 witness: finalize_vdf_result has just failed on a beacon that holds a
\* seed, commitments and a VDF result.
FailedFinalizeChangesNothingWitness ==
  /\ lastOp = "finalize_vdf_result" /\ lastResult = "NotEnoughVdfResults"
  /\ state = "SeedReady" /\ seed # None
  /\ seed_commitments # EmptyMap /\ vdf_results # EmptyMap

\* C14: add_seed_commitment is rejected (NotCollectingSeedCommitments)
\* exactly when the phase is not CollectingSeedCommitments and
\* add_vdf_result is rejected (NotCollectingVdfResults) exactly when the
\* phase is not SeedReady; a rejected add changes neither collection, nor
\* the phase, nor the outputs; an accepted add changes the entry of one id
\* of its own collection and nothing else.
AddGuardsAndFrame ==
  [][/\ lastOp' = "add_seed_commitment"
         => /\ lastResult' = "NotCollectingSeedCommitments"
                 <=> state # "CollectingSeedCommitments"
            /\ lastResult' \in {"Ok", "NotCollectingSeedCommitments"}
            /\ UNCHANGED << state, seed, randomness, vdf_results >>
            /\ lastResult' # "Ok" => UNCHANGED seed_commitments
            /\ lastResult' = "Ok" =>
                 \E id \in DOMAIN seed_commitments' :
                   /\ DOMAIN seed_commitments' = DOMAIN seed_commitments \cup {id}
                   /\ \A x \in DOMAIN seed_commitments \ {id} :
                        seed_commitments'[x] = seed_commitments[x]
     /\ lastOp' = "add_vdf_result"
         => /\ lastResult' = "NotCollectingVdfResults" <=> state # "SeedReady"
            /\ lastResult' \in {"Ok", "NotCollectingVdfResults"}
            /\ UNCHANGED << state, seed, randomness, seed_commitments >>
            /\ lastResult' # "Ok" => UNCHANGED vdf_results
            /\ lastResult' = "Ok" =>
                 \E id \in DOMAIN vdf_results' :
                   /\ DOMAIN vdf_results' = DOMAIN vdf_results \cup {id}
                   /\ \A x \in DOMAIN vdf_results \ {id} :
                        vdf_results'[x] = vdf_results[x]]_vars

\* C14 witness: add_vdf_result has just been rejected in RandomnessReady by
\* a beacon that holds results, after accepted adds of both kinds.
AddGuardsAndFrameWitness ==
  /\ lastOp = "add_vdf_result" /\ lastResult = "NotCollectingVdfResults"
  /\ state = "RandomnessReady"
  /\ Cardinality(DOMAIN seed_commitments) >= 2
  /\ Cardinality(DOMAIN vdf_results) >= 2

\* C22: once finalize_seed has succeeded, no call other than reset changes
\* the stored seed: not add_seed_commitment, not another finalize_seed, not
\* add_vdf_result, not finalize_vdf_result.
SeedStable ==
  [][(seed # None /\ lastOp' # "reset") => seed' = seed]_vars

\* C22 witness: finalize_seed has succeeded again on a beacon that had
\* already gone on to store VDF results and its randomness; the beacon
\* holds two commitments with different values.
SeedStableWitness ==
  /\ lastOp = "finalize_seed" /\ lastResult = "Ok"
  /\ seed # None /\ randomness # None /\ vdf_results # EmptyMap
  /\ \E a, b \in DOMAIN seed_commitments :
       seed_commitments[a].value # seed_commitments[b].value

\* ------------------------------------------------------- Layer B, claims
\* C1: any two peers that report SUCCESS report the same random number.
SuccessAgree ==
  \A i, j \in PeerIds :
    (outcome[i] = "SUCCESS" /\ outcome[j] = "SUCCESS") => reported[i] = reported[j]

ReportedIsValid ==
  \A i \in PeerIds :
    outcome[i] = "SUCCESS" =>
      \E k \in DOMAIN peer_vdf_results[i] :
        /\ peer_vdf_results[i][k].seed = peer_seed[i][1]
        /\ verify(peer_seed[i][1], peer_vdf_results[i][k].result)
        /\ reported[i] = Some(hash(peer_vdf_results[i][k].result))

\* ceil(num_peers * 2 / 3)
CeilTwoThirds == (2 * NumPeers + 2) \div 3

\* The step is peer i's commit-round timer firing: the timer is used up, or
\* the running peer arms a commit-delay callback again.
RoundTimerFires(i) ==
  /\ life[i] = "running"
  /\ round_timers'[i] < round_timers[i] \/ commit_timers'[i] > commit_timers[i]

ValidResults(i) ==
  { k \in DOMAIN peer_vdf_results[i] :
      /\ peer_seed[i] # None
      /\ peer_vdf_results[i][k].seed = peer_seed[i][1]
      /\ verify(peer_seed[i][1], peer_vdf_results[i][k].result) }

Handles(i) == mailbox[i] # << >> /\ mailbox'[i] = Tail(mailbox[i])

\* C17: whatever is delivered, in whatever order and however often, an entry
\* stored in a peer's commitments or VDF results never changes or
\* disappears, and handling a message whose id_from is already stored for
\* its kind leaves the map as it was.
StoredEntryKept ==
  [][\A i \in PeerIds :
       /\ \A j \in DOMAIN commitments[i] :
            j \in DOMAIN commitments'[i] /\ commitments'[i][j] = commitments[i][j]
       /\ \A j \in DOMAIN peer_vdf_results[i] :
            /\ j \in DOMAIN peer_vdf_results'[i]
            /\ peer_vdf_results'[i][j] = peer_vdf_results[i][j]
       /\ (Handles(i) /\ Head(mailbox[i]).type = "Commitment"
             /\ Head(mailbox[i]).id_from \in DOMAIN commitments[i])
            => commitments'[i] = commitments[i]
       /\ (Handles(i) /\ Head(mailbox[i]).type = "VdfResult"
             /\ Head(mailbox[i]).id_from \in DOMAIN peer_vdf_results[i])
            => peer_vdf_results'[i] = peer_vdf_results[i]]_vars

\* C17 witness: a peer that has stored a VDF result of peer 0 is about to
\* handle a second VDF result of peer 0 that carries another seed and value.
StoredEntryKeptWitness ==
  \E i \in PeerIds :
    /\ 0 \in DOMAIN peer_vdf_results[i]
    /\ mailbox[i] # << >>
    /\ Head(mailbox[i]).type = "VdfResult"
    /\ Head(mailbox[i]).id_from = 0
    /\ Head(mailbox[i]).seed # peer_vdf_results[i][0].seed

PeerRank ==
  [p \in {"Idle", "Connected", "Commit", "DoingVdf", "VerifyingVdf"} |->
     CASE p = "Idle" -> 0
       [] p = "Connected" -> 1
       [] p = "Commit" -> 2
       [] p = "DoingVdf" -> 3
       [] p = "VerifyingVdf" -> 4]

\* C18: no step of a run moves a peer's state to an earlier value in the
\* order Idle, Connected, Commit, DoingVdf, VerifyingVdf, restarts of the
\* commit phase included.
PeerStateForward ==
  [][\A i \in PeerIds : PeerRank[peer_state'[i]] >= PeerRank[peer_state[i]]]_vars

\* C18 witness: a peer that restarted its commit phase has gone through
\* every state and reported.
PeerStateForwardWitness ==
  \E i \in PeerIds :
    /\ commits_made[i] = 2
    /\ peer_state[i] = "VerifyingVdf" /\ outcome[i] # "none"

\* The VdfResult messages of peer i that peer i itself holds: waiting in its
\* mailbox or stored.  The peer is registered when it broadcasts, so each
\* of its broadcasts adds one.
OwnVdfResults(i) ==
  Cardinality({ k \in DOMAIN mailbox[i] :
                  mailbox[i][k].type = "VdfResult" /\ mailbox[i][k].id_from = i })
    + (IF i \in DOMAIN peer_vdf_results[i] THEN 1 ELSE 0)

\* C19: a peer evaluates the VDF and broadcasts its VdfResult at most once:
\* only a peer in Commit that has no seed and has broadcast no result does
\* so, and a seed once set stays; a peer never has more than one
\* commit-round timer outstanding and has none in DoingVdf or VerifyingVdf.
VdfOnce ==
  [][\A i \in PeerIds :
       /\ round_timers'[i] <= 1 /\ vdf_timers'[i] <= 1
       /\ peer_state'[i] \in {"DoingVdf", "VerifyingVdf"} => round_timers'[i] = 0
       /\ OwnVdfResults(i)' <= 1
       /\ (vdf_timers'[i] > vdf_timers[i] \/ OwnVdfResults(i)' > OwnVdfResults(i))
            => /\ peer_state[i] = "Commit" /\ peer_seed[i] = None
               /\ OwnVdfResults(i) = 0 /\ vdf_timers[i] = 0
               /\ peer_state'[i] = "DoingVdf"
       /\ peer_seed[i] # None => peer_seed'[i] = peer_seed[i]]_vars

\* C19 witness: a peer that restarted its commit phase is in DoingVdf after
\* its one VDF evaluation: its result is broadcast, its VDF-gathering timer
\* is armed and no commit-round timer is left.
VdfOnceWitness ==
  \E i \in PeerIds :
    /\ commits_made[i] = 2 /\ peer_state[i] = "DoingVdf"
    /\ OwnVdfResults(i) = 1 /\ vdf_timers[i] = 1 /\ round_timers[i] = 0

\* C20: at every moment any two peers that have stored a commitment of
\* peer i have stored the same value for i.
CommitmentsAgree ==
  \A p, q \in PeerIds :
    \A i \in DOMAIN commitments[p] \cap DOMAIN commitments[q] :
      commitments[p][i].value = commitments[q][i].value

\* The ids peer p holds or can still come to hold a commitment of: those it
\* stores, those waiting in its mailbox, its own, and those of the peers
\* that have not left the commit phase and so may still broadcast one.
GatherableIds(p) ==
  DOMAIN commitments[p]
    \cup { mailbox[p][k].id_from :
             k \in { n \in DOMAIN mailbox[p] : mailbox[p][n].type = "Commitment" } }
    \cup { p }
    \cup { q \in PeerIds :
             \/ life[q] = "new"
             \/ life[q] = "running" /\ peer_state[q] \in {"Idle", "Connected", "Commit"} }

\* C21: every started peer eventually reports SUCCESS or FAILURE or stops,
\* and none restarts its commit phase forever.  A peer leaves the commit
\* phase only by holding ceil(num_peers*2/3) commitments when its
\* commit-round timer fires, so at every moment a running peer that is still
\* in its commit phase must be able to come to hold that many: the ids it
\* holds, those still to be handled and those still to be broadcast reach
\* ceil(num_peers*2/3).
NoEndlessRestart ==
  \A p \in PeerIds :
    (life[p] = "running" /\ peer_state[p] \in {"Connected", "Commit"})
      => Cardinality(GatherableIds(p)) >= CeilTwoThirds

====
